---------------------------- MODULE Spec2Model ----------------------------
(***************************************************************************)
(* Model of src/ode/highlevel.go:                                          *)
(*   - opt.ConjGrad (NewConjGrad, Min, checkJacobian): the nonlinear       *)
(*     conjugate-gradient minimiser of Fletcher-Reeves / Polak-Ribiere;    *)
(*   - ode.Solve: the configuration of the ODE solver from its arguments.  *)
(*                                                                         *)
(* float64 values are modelled by exact rationals <<n, d>> (d > 0, lowest  *)
(* terms); <<0, 0>> is NaN, the result of a division by zero, and every    *)
(* comparison with it is false, as in IEEE-754.  Tolerances are decimal    *)
(* numbers m * 10^-e (or +Inf), so that 1e-8, 1e-10, 1e-12 and 1e-18 are   *)
(* compared exactly without leaving the integer range.                     *)
(***************************************************************************)
EXTENDS Integers, Sequences, FiniteSets, TLC

VARIABLES
    o,      \* the ConjGrad struct: configuration, statistics, working vectors
    min,    \* the frame of ConjGrad.Min: position pc, argument x, locals
    obs,    \* observations of the current Min call (history variables)
    twin,   \* a second optimizer run on the objective shifted by a constant
    ode     \* ode.Solve: its last arguments and the configuration it built

vars == <<o, min, obs, twin, ode>>

----------------------------------------------------------------------------
(* Bounds of the exploration *)

MaxCalls == 2       \* Min calls explored on one instance
IterCap == 3        \* loop iterations explored in one Min call
MagCap == 50        \* a run is followed while the numerators and denominators
                    \* of x, u, g and h stay within this magnitude

----------------------------------------------------------------------------
(* float64 arithmetic on exact rationals *)

Abs(n) == IF n < 0 THEN -n ELSE n

RECURSIVE GCD(_, _)
GCD(a, b) == IF b = 0 THEN a ELSE GCD(b, a % b)

NaN == <<0, 0>>
IsNaN(p) == p[2] = 0

Rat(n, d) ==
    IF d = 0 THEN NaN
    ELSE LET s == IF d < 0 THEN -1 ELSE 1
             k == GCD(Abs(n), Abs(d))
         IN  <<(s * n) \div k, (s * d) \div k>>

R(n) == <<n, 1>>

\* the operations cancel common factors before they multiply
RAdd(p, q) ==
    IF IsNaN(p) \/ IsNaN(q) THEN NaN
    ELSE LET k == GCD(p[2], q[2])
         IN  Rat(p[1] * (q[2] \div k) + q[1] * (p[2] \div k), (p[2] \div k) * q[2])
RNeg(p) == <<-p[1], p[2]>>
RSub(p, q) == RAdd(p, RNeg(q))
RMul(p, q) ==
    IF IsNaN(p) \/ IsNaN(q) THEN NaN
    ELSE LET k1 == GCD(Abs(p[1]), q[2])
             k2 == GCD(Abs(q[1]), p[2])
         IN  Rat((p[1] \div k1) * (q[1] \div k2), (p[2] \div k2) * (q[2] \div k1))
RDiv(p, q) ==
    IF IsNaN(p) \/ IsNaN(q) \/ q[1] = 0 THEN NaN
    ELSE RMul(p, IF q[1] < 0 THEN <<-q[2], -q[1]>> ELSE <<q[2], q[1]>>)
RAbs(p) == <<Abs(p[1]), p[2]>>
RLe(p, q) ==
    /\ ~IsNaN(p) /\ ~IsNaN(q)
    /\ LET k == GCD(p[2], q[2])
       IN  p[1] * (q[2] \div k) <= q[1] * (p[2] \div k)
RLt(p, q) ==
    /\ ~IsNaN(p) /\ ~IsNaN(q)
    /\ LET k == GCD(p[2], q[2])
       IN  p[1] * (q[2] \div k) < q[1] * (p[2] \div k)
\* utl.Max(a, b): a if a > b, else b
RMax(p, q) == IF RLt(q, p) THEN p ELSE q

----------------------------------------------------------------------------
(* Decimal tolerances m * 10^-e *)

Tol(m, e) == [m |-> m, e |-> e, inf |-> FALSE]
TolInf == [m |-> 0, e |-> 0, inf |-> TRUE]

\* floor(v / 10^e), v >= 0
RECURSIVE DivPow10(_, _)
DivPow10(v, e) == IF e = 0 THEN v ELSE DivPow10(v \div 10, e - 1)

\* ceil(v / 10^e), v >= 0
RECURSIVE CeilDivPow10(_, _)
CeilDivPow10(v, e) == IF e = 0 THEN v ELSE CeilDivPow10((v + 9) \div 10, e - 1)

\* p < t, p <= t and p > t for a rational p and a tolerance t:
\*   n/d <  m/10^e  iff  n <  ceil(m*d / 10^e)
\*   n/d <= m/10^e  iff  n <= floor(m*d / 10^e)
RLtTol(p, t) ==
    /\ ~IsNaN(p)
    /\ \/ t.inf
       \/ p[1] < CeilDivPow10(t.m * p[2], t.e)
RLeTol(p, t) ==
    /\ ~IsNaN(p)
    /\ \/ t.inf
       \/ p[1] <= DivPow10(t.m * p[2], t.e)
RGtTol(p, t) ==
    /\ ~IsNaN(p)
    /\ ~t.inf
    /\ p[1] > DivPow10(t.m * p[2], t.e)

----------------------------------------------------------------------------
(* la.Vector: sequences of rationals *)

RECURSIVE DotUpTo(_, _, _)
DotUpTo(a, b, n) ==
    IF n = 0 THEN R(0) ELSE RAdd(DotUpTo(a, b, n - 1), RMul(a[n], b[n]))

\* la.VecDot(a, b)
VecDot(a, b) == DotUpTo(a, b, Len(a))

\* la.VecAdd(res, alp, a, bet, b): res := alp*a + bet*b
VecAdd(alp, a, bet, b) ==
    [j \in 1..Len(a) |-> RAdd(RMul(alp, a[j]), RMul(bet, b[j]))]

\* la.NewVector(n): n zeros
NewVector(n) == [j \in 1..n |-> R(0)]

VecNeg(a) == [j \in 1..Len(a) |-> RNeg(a[j])]

\* res.Apply(alp, a): res := alp*a
VecApply(alp, a) == [j \in 1..Len(a) |-> RMul(alp, a[j])]


----------------------------------------------------------------------------
(* The caller's problem: objective ffcn and gradient function jfcn.        *)
(* The objectives are the quadratics  k + sum_j a[j] * (x[j] - c[j])^2 ;   *)
(* the supplied gradient is gfac * (true gradient), which is the true      *)
(* gradient exactly when gfac = 1 (and is off by a constant factor else).  *)

Centre == <<3, -1>>

\* o.ffcn(x)
Ffcn(p, x) ==
    LET w == [j \in 1..Len(x) |-> RMul(R(p.a[j]), RSub(x[j], R(p.c[j])))]
        y == [j \in 1..Len(x) |-> RSub(x[j], R(p.c[j]))]
    IN  RAdd(R(p.k), VecDot(w, y))

\* the derivative of the objective with respect to x[k]
Deriv(p, x, k) == RMul(R(2 * p.a[k]), RSub(x[k], R(p.c[k])))

\* o.jfcn(g, x)
Jfcn(p, x) ==
    [k \in 1..Len(x) |-> RMul(R(p.gfac), Deriv(p, x, k))]

----------------------------------------------------------------------------
(* Collaborators of the optimizer *)

\* The line minimisation along u from x.  phi(t) = f(x + t*u) is a parabola
\* with slope d1 at 0 and curvature d2; its minimiser is -d1/d2.  The Brent
\* solver returns the minimiser; the Wolfe search returns the minimiser or
\* half of it (both satisfy the sufficient-decrease and curvature
\* conditions).  x is advanced to x + lambda*u; the solver's own evaluation
\* counters are reported with the result.
LineSearchMin(p, x, u, brent, halve) ==
    LET n == Len(x)
        d1 == VecDot([k \in 1..n |-> Deriv(p, x, k)], u)
        d2 == VecDot([k \in 1..n |-> RMul(R(2 * p.a[k]), u[k])], u)
        best == IF d2[1] = 0 THEN R(0) ELSE RNeg(RDiv(d1, d2))
        lam == IF halve /\ ~brent THEN RDiv(best, R(2)) ELSE best
        xn == VecAdd(R(1), x, lam, u)
    IN  [lambda |-> lam, fmin |-> Ffcn(p, xn), x |-> xn,
         NumFeval |-> IF brent THEN 3 ELSE IF halve THEN 1 ELSE 2,
         NumJeval |-> IF brent THEN 0 ELSE IF halve THEN 1 ELSE 2]

\* num.DerivCen5(x[k], 1e-3, f): the 5-point central difference, exact on
\* polynomials of degree <= 4; it evaluates f at 4 points, the last of them
\* x[k] + h with h = 1e-3
DerivCen5Evals == 4
DerivCen5(p, x, k) == Deriv(p, x, k)
DerivCen5LastPoint(xk) == RAdd(xk, <<1, 1000>>)

\* NewHistory(MaxIt, f0, x0, ffcn) and History.Append(f, x, u)
NewHistory(f0, x0) == <<[f |-> f0, x |-> x0, u |-> NewVector(Len(x0))]>>
HistAppend(hist, f, x, u) == Append(hist, [f |-> f, x |-> x, u |-> u])

----------------------------------------------------------------------------
(* opt.ConjGrad *)

\* NewConjGrad(size, ffcn, Jfcn)
NewConjGrad(size, p) ==
    [size |-> size, prob |-> p,
     MaxIt |-> 200, Ftol |-> Tol(1, 8), Gtol |-> Tol(1, 8), tiny |-> Tol(1, 18),
     History |-> FALSE, UseBrent |-> FALSE, UseFRmethod |-> FALSE,
     CheckJfcn |-> FALSE,
     NumFeval |-> 0, NumJeval |-> 0, NumIter |-> 0, Hist |-> <<>>,
     u |-> NewVector(size), g |-> NewVector(size), h |-> NewVector(size),
     tmp |-> NewVector(size)]

\* the frame of Min before the first call
NoFrame(size) ==
    [pc |-> "idle", x |-> NewVector(size), fx |-> R(0), fmin |-> R(0),
     fold |-> [base |-> R(0), normsq |-> R(0)], deno |-> R(0),
     nume |-> R(0), gam |-> R(0), lam |-> R(0)]

NoObs ==
    [ncalls |-> 0, x0 |-> <<>>, f0 |-> R(0), fmins |-> <<>>, callF |-> 0,
     callJ |-> 0, sat |-> FALSE, nUpd |-> 0, nChk |-> 0, exit |-> 0]

Machine(size, p) ==
    [o |-> NewConjGrad(size, p), min |-> NoFrame(size), obs |-> NoObs]

\* no second instance
NoTwin == [min |-> [pc |-> "none"]]

\* o.NumFeval = 1 ; o.NumJeval = 1
ResetCountAccumulating(prev) == prev + 1
ResetCount(prev) == 1

\* the loop condition  o.NumIter < o.MaxIt
LoopCondInclusive(numIter, maxIt) == numIter <= maxIt
LoopCond(numIter, maxIt) == numIter < maxIt

\* exit point # 1:  math.Abs(deno) < o.tiny
ZeroGradientNever(deno, tiny) == RLtTol(RAbs(deno), Tol(0, 0))
ZeroGradient(deno, tiny) == RLtTol(RAbs(deno), tiny)

\* exit point # 2:
\*   2.0*math.Abs(fmin-fx) <= o.Ftol*(math.Abs(fmin)+math.Abs(fx)+o.tiny)
\* With 2|fmin-fx| = pp/D and |fmin|+|fx| = ss/D on the common denominator
\* D, Ftol = m/10^e and tiny = t/10^w, the test is
\*   pp <= floor( (m*ss + floor(m*t*D / 10^w)) / 10^e ).
ConvergedOnF(fmin, fx, Ftol, tiny) ==
    LET lhs == RMul(R(2), RAbs(RSub(fmin, fx)))
        sum == RAdd(RAbs(fmin), RAbs(fx))
        k == GCD(lhs[2], sum[2])
        D == (lhs[2] \div k) * sum[2]
        pp == lhs[1] * (sum[2] \div k)
        ss == sum[1] * (lhs[2] \div k)
    IN  /\ ~IsNaN(lhs) /\ ~IsNaN(sum)
        /\ \/ Ftol.inf
           \/ pp <= DivPow10(Ftol.m * ss + DivPow10(Ftol.m * tiny.m * D, tiny.e),
                             Ftol.e)

\* the scaled gradient:  test = max_j |u[j]| * max(|x[j]|, 1) / max(fx, 1)
RECURSIVE ScaledGradUpTo(_, _, _, _)
ScaledGradUpTo(u, x, coef, n) ==
    IF n = 0 THEN R(0)
    ELSE LET test == ScaledGradUpTo(u, x, coef, n - 1)
             temp == RDiv(RMul(RAbs(u[n]), RMax(RAbs(x[n]), R(1))), coef)
         IN  IF RLt(test, temp) THEN temp ELSE test

ScaledGrad(u, x, fx) == ScaledGradUpTo(u, x, RMax(fx, R(1)), Len(u))

\* exit point # 3:  test < o.Gtol
ConvergedOnGFlipped(test, Gtol) == RGtTol(test, Gtol)
ConvergedOnG(test, Gtol) == RLtTol(test, Gtol)

\* checkJacobian:  diff := math.Abs(o.u[k] - dfdxk) ; diff > tolJ
TolJ == Tol(1, 12)
JacobianMismatchFlipped(uk, dfdxk) == RLtTol(RAbs(RSub(uk, dfdxk)), TolJ)
JacobianMismatch(uk, dfdxk) == RGtTol(RAbs(RSub(uk, dfdxk)), TolJ)

\* checkJacobian(x): the components are checked in order and the first
\* mismatch panics; every evaluation of the objective counts in NumFeval
CheckJacobian(oo, x) ==
    LET bad == {k \in 1..oo.size :
                    JacobianMismatch(oo.u[k], DerivCen5(oo.prob, x, k))}
        last == IF bad = {} THEN oo.size
                ELSE CHOOSE k \in bad : \A i \in bad : k <= i
    IN  [ok |-> bad = {},
         evals |-> DerivCen5Evals * last,
         tmp |-> IF last = 0 THEN oo.tmp
                 ELSE [x EXCEPT ![last] = DerivCen5LastPoint(x[last])]]

\* the numerator of the scaling factor
NumeratorUnclamped(u, g, useFR) ==
    IF useFR THEN VecDot(u, u)
    ELSE VecDot(VecAdd(R(1), u, R(1), g), u)
Numerator(u, g, useFR) ==
    IF useFR THEN VecDot(u, u)
    ELSE RMax(VecDot(VecAdd(R(1), u, R(1), g), u), R(0))

----------------------------------------------------------------------------
(* ConjGrad.Min, as steps on a machine M = [o, min, obs] *)

Running(M) == M.min.pc \in {"head", "line", "grad", "update"}
Ended(M) == M.min.pc \in {"returned", "failConv", "failJac"}

\* the result of one line search as Min stores it:  lambda-hist, fmin
LineResultSwapped(ls) == [lam |-> ls.fmin, fmin |-> ls.lambda]
LineResult(ls) == [lam |-> ls.lambda, fmin |-> ls.fmin]

\* lines 166-203: initialisations, up to the loop's  o.NumIter = 0
MinCall(M, x0) ==
    LET oo == M.o
        fx == Ffcn(oo.prob, x0)
        u == VecNeg(Jfcn(oo.prob, x0))
    IN  [o |-> [oo EXCEPT !.u = u, !.g = u, !.h = u,
                          !.NumFeval = ResetCount(@),
                          !.NumJeval = ResetCount(@),
                          !.Hist = IF oo.History THEN NewHistory(fx, x0) ELSE @,
                          !.NumIter = 0],
         min |-> [M.min EXCEPT !.pc = "head", !.x = x0, !.fx = fx,
                               !.fmin = fx, !.lam = R(0),
                               !.fold = [base |-> fx, normsq |-> VecDot(u, u)]],
         obs |-> [ncalls |-> M.obs.ncalls + 1, x0 |-> x0, f0 |-> fx,
                  fmins |-> <<>>, callF |-> 1, callJ |-> 1, sat |-> FALSE,
                  nUpd |-> 0, nChk |-> 0, exit |-> 0]]

\* lines 203-209: the loop condition, then exit point # 1;
\* line 276: the panic after the loop
IterHead(M) ==
    LET oo == M.o
        deno == VecDot(oo.g, oo.g)
        zero == ZeroGradient(deno, oo.tiny)
    IN  IF ~LoopCond(oo.NumIter, oo.MaxIt)
        THEN [M EXCEPT !.min.pc = "failConv"]
        ELSE [M EXCEPT !.min.deno = deno,
                       !.min.pc = IF zero THEN "returned" ELSE "line",
                       !.obs.sat = @ \/ zero,
                       !.obs.exit = IF zero THEN 1 ELSE 0]

\* lines 211-228: line minimisation, counters, fold, history, exit point # 2
LineMin(M, halve) ==
    LET oo == M.o
        ls == LineSearchMin(oo.prob, M.min.x, oo.u, oo.UseBrent, halve)
        res == LineResult(ls)
        conv == ConvergedOnF(res.fmin, M.min.fx, oo.Ftol, oo.tiny)
    IN  [o |-> [oo EXCEPT !.NumFeval = @ + ls.NumFeval,
                          !.NumJeval = @ + ls.NumJeval,
                          !.Hist = IF oo.History
                                   THEN HistAppend(@, res.fmin, ls.x,
                                                   VecApply(res.lam, oo.u))
                                   ELSE @],
         min |-> [M.min EXCEPT !.x = ls.x, !.fmin = res.fmin, !.lam = res.lam,
                               !.fold = [base |-> M.min.fx, normsq |-> R(0)],
                               !.pc = IF conv THEN "returned" ELSE "grad"],
         obs |-> [M.obs EXCEPT !.fmins = Append(@, res.fmin),
                               !.callF = @ + ls.NumFeval,
                               !.callJ = @ + ls.NumJeval,
                               !.sat = @ \/ conv,
                               !.exit = IF conv THEN 2 ELSE 0]]

\* lines 230-253: fx, the gradient at the new x, its verification, the
\* scaled-gradient test and exit point # 3
Gradient(M) ==
    LET oo == M.o
        fx == M.min.fmin
        u == Jfcn(oo.prob, M.min.x)
        o1 == [oo EXCEPT !.u = u, !.NumJeval = @ + 1]
        chk == IF oo.CheckJfcn THEN CheckJacobian(o1, M.min.x)
               ELSE [ok |-> TRUE, evals |-> 0, tmp |-> oo.tmp]
        o2 == [o1 EXCEPT !.NumFeval = @ + chk.evals, !.tmp = chk.tmp]
        conv == ConvergedOnG(ScaledGrad(u, M.min.x, fx), oo.Gtol)
    IN  IF ~chk.ok
        THEN [o |-> o2,
              min |-> [M.min EXCEPT !.fx = fx, !.pc = "failJac"],
              obs |-> [M.obs EXCEPT !.callF = @ + chk.evals, !.callJ = @ + 1]]
        ELSE [o |-> o2,
              min |-> [M.min EXCEPT !.fx = fx,
                                    !.pc = IF conv THEN "returned" ELSE "update"],
              obs |-> [M.obs EXCEPT !.callF = @ + chk.evals, !.callJ = @ + 1,
                                    !.nChk = IF oo.CheckJfcn THEN @ + 1 ELSE @,
                                    !.sat = @ \/ conv,
                                    !.exit = IF conv THEN 3 ELSE 0]]

\* lines 255-272 and the loop's  o.NumIter++
Update(M) ==
    LET oo == M.o
        nume == Numerator(oo.u, oo.g, oo.UseFRmethod)
        gam == RDiv(nume, M.min.deno)
        g == VecNeg(oo.u)
        u == VecAdd(R(1), g, gam, oo.h)
    IN  [o |-> [oo EXCEPT !.g = g, !.u = u, !.h = u,
                          !.tmp = IF oo.UseFRmethod THEN @
                                  ELSE VecAdd(R(1), oo.u, R(1), oo.g),
                          !.NumIter = @ + 1],
         min |-> [M.min EXCEPT !.nume = nume, !.gam = gam, !.pc = "head"],
         obs |-> [M.obs EXCEPT !.nUpd = @ + 1]]

----------------------------------------------------------------------------
(* The optimizer and its caller *)

Problems ==
    {[a |-> a, c |-> Centre, k |-> k, gfac |-> w] :
        a \in {<<1, 1>>, <<1, 2>>}, k \in {0, -20}, w \in {1, 2}}

StartPoints == {<<R(0), R(0)>>, <<R(3), R(-1)>>}

MaxItValues == {0, 1, 2, 200}
FtolValues == {Tol(1, 8), Tol(2, 0)}
GtolValues == {Tol(1, 8), Tol(0, 0), TolInf}

Cur == [o |-> o, min |-> min, obs |-> obs]

\* the run is followed: within IterCap iterations and MagCap magnitudes
Small(v) == \A j \in 1..Len(v) : Abs(v[j][1]) <= MagCap /\ v[j][2] <= MagCap
Followed(M) ==
    /\ M.o.NumIter < IterCap \/ ~LoopCond(M.o.NumIter, M.o.MaxIt)
    /\ Small(M.min.x) /\ Small(M.o.u) /\ Small(M.o.g) /\ Small(M.o.h)

Becomes(M) == o' = M.o /\ min' = M.min /\ obs' = M.obs

Init ==
    /\ \E p \in Problems : o = NewConjGrad(Len(Centre), p)
    /\ twin = NoTwin
    /\ min = NoFrame(Len(Centre))
    /\ obs = NoObs
    /\ ode = [pc |-> "idle"]

\* the caller sets the public configuration fields after construction
\* (MaxIt is a count >= 0); the configuration is kept over the calls
Configure ==
    /\ min.pc = "idle"
    /\ \E mi \in MaxItValues, ft \in FtolValues, gt \in GtolValues,
          hi \in BOOLEAN, br \in BOOLEAN, fr \in BOOLEAN, cj \in BOOLEAN :
          o' = [o EXCEPT !.MaxIt = mi, !.Ftol = ft, !.Gtol = gt, !.History = hi,
                         !.UseBrent = br, !.UseFRmethod = fr, !.CheckJfcn = cj]
    /\ UNCHANGED <<min, obs, twin, ode>>

CallMin ==
    /\ min.pc = "idle" \/ Ended(Cur)
    /\ obs.ncalls < MaxCalls
    /\ \E x0 \in StartPoints : Becomes(MinCall(Cur, x0))
    /\ UNCHANGED <<twin, ode>>

StepIterHead ==
    /\ min.pc = "head"
    /\ Followed(Cur)
    /\ Becomes(IterHead(Cur))
    /\ UNCHANGED <<twin, ode>>

StepLineMin ==
    /\ min.pc = "line"
    /\ \E halve \in (IF o.UseBrent THEN {FALSE} ELSE BOOLEAN) :
          Becomes(LineMin(Cur, halve))
    /\ UNCHANGED <<twin, ode>>

StepGradient ==
    /\ min.pc = "grad"
    /\ Becomes(Gradient(Cur))
    /\ UNCHANGED <<twin, ode>>

StepUpdate ==
    /\ min.pc = "update"
    /\ Becomes(Update(Cur))
    /\ UNCHANGED <<twin, ode>>

Next ==
    \/ Configure
    \/ CallMin
    \/ StepIterHead
    \/ StepLineMin
    \/ StepGradient
    \/ StepUpdate

Spec == Init /\ [][Next]_vars

----------------------------------------------------------------------------
(* Properties of ConjGrad.Min under Spec *)

InCall == min.pc # "idle"

\* the supplied gradient and the true derivative differ at x in some
\* component by more than 1e-12
GradientWrongAt(x) ==
    \E k \in 1..Len(x) :
        RGtTol(RAbs(RSub(Jfcn(o.prob, x)[k], Deriv(o.prob, x, k))), TolJ)

\* |grad.grad| < tiny at x
GradientZeroAt(x) ==
    RLtTol(RAbs(VecDot(Jfcn(o.prob, x), Jfcn(o.prob, x))), o.tiny)

\* C1: Min ends in the 'fail to converge' panic exactly when MaxIt loop
\* iterations were completed and none of the three tests was satisfied in
\* any of them, and then NumIter = MaxIt; whenever one of the three tests is
\* satisfied Min returns normally, with NumIter < MaxIt.
C1_FailToConverge ==
    /\ min.pc = "failConv" =>
          o.NumIter = o.MaxIt /\ obs.nUpd = o.MaxIt /\ ~obs.sat
    /\ min.pc = "returned" =>
          obs.sat /\ obs.exit \in 1..3 /\ o.NumIter < o.MaxIt
    /\ obs.sat /\ InCall => min.pc = "returned"
    /\ Running(Cur) /\ obs.nUpd = o.MaxIt =>
          min.pc = "head" /\ IterHead(Cur).min.pc = "failConv"
    /\ Running(Cur) => obs.nUpd <= o.MaxIt

C1_Witness ==
    min.pc = "failConv" /\ o.MaxIt = 2 /\ obs.nUpd = 2 /\ Len(obs.fmins) = 2

\* C2: called with MaxIt >= 1 at a point whose gradient has |grad.grad| <
\* tiny, Min returns normally at once: no line search, x unmodified, fmin =
\* objective(x), NumFeval = 1, NumJeval = 1, NumIter = 0; and in no
\* iteration is the line search called with a stored g of |g.g| < tiny.
C2_ZeroGradient ==
    /\ InCall /\ o.MaxIt >= 1 /\ GradientZeroAt(obs.x0) =>
          /\ min.pc \in {"head", "returned"}
          /\ min.pc = "returned" => obs.exit = 1
          /\ obs.fmins = <<>>
          /\ min.x = obs.x0
          /\ min.fmin = Ffcn(o.prob, obs.x0)
          /\ o.NumFeval = 1 /\ o.NumJeval = 1 /\ o.NumIter = 0
    /\ min.pc = "line" => ~RLtTol(RAbs(VecDot(o.g, o.g)), o.tiny)

C2_Witness ==
    /\ min.pc = "returned" /\ obs.exit = 1 /\ o.MaxIt >= 1
    /\ GradientZeroAt(obs.x0) /\ o.NumIter = 0 /\ o.NumFeval = 1

C4_CountersOfThisCall ==
    InCall =>
        /\ o.NumFeval = obs.callF
        /\ o.NumJeval = obs.callJ
        /\ o.NumIter = obs.nUpd
        /\ o.History =>
              /\ Len(o.Hist) = 1 + Len(obs.fmins)
              /\ o.Hist[1].f = obs.f0 /\ o.Hist[1].x = obs.x0

C4_NeverDecrease ==
    InCall /\ obs'.ncalls = obs.ncalls =>
        o'.NumFeval >= o.NumFeval /\ o'.NumJeval >= o.NumJeval

\* C4: the counters are those of the current call alone in every state,
\* and no step of a call decreases NumFeval or NumJeval.
C4_Counters == [](C4_CountersOfThisCall) /\ [][C4_NeverDecrease]_vars

C4_Witness ==
    /\ obs.ncalls = 2 /\ Ended(Cur) /\ o.History /\ o.CheckJfcn
    /\ Len(obs.fmins) >= 2 /\ o.NumFeval > 1 + 2 * DerivCen5Evals

\* C6: with Gtol infinite (larger than every value of the scaled-gradient
\* test) and MaxIt >= 1, Min ends at iteration 0: NumIter stays 0, no
\* direction update is executed, the 'fail to converge' panic is unreachable.
C6_InfiniteGtol ==
    InCall /\ o.Gtol.inf /\ o.MaxIt >= 1 =>
        /\ o.NumIter = 0 /\ obs.nUpd = 0
        /\ min.pc \notin {"update", "failConv"}

C6_Witness ==
    /\ o.Gtol.inf /\ min.pc = "returned" /\ obs.exit = 3 /\ o.NumIter = 0
    /\ RGtTol(ScaledGrad(o.u, min.x, min.fx), Tol(1, 0))

\* C7: within one Min call the fmin values of the successive line
\* minimisations are non-increasing, the first is <= the objective at the
\* starting point, and the value Min returns is <= objective(initial x).
C7_MonotoneDecrease ==
    InCall =>
        /\ \A i \in 1..Len(obs.fmins) :
              RLe(obs.fmins[i], IF i = 1 THEN obs.f0 ELSE obs.fmins[i - 1])
        /\ min.pc = "returned" => RLe(min.fmin, obs.f0)

C7_Witness ==
    /\ min.pc = "returned" /\ Len(obs.fmins) = 3
    /\ RLt(obs.fmins[3], obs.fmins[2]) /\ RLt(obs.fmins[2], obs.fmins[1])
    /\ RLt(obs.fmins[1], obs.f0)

\* C10: at every direction update gamma = nume/deno is a well-defined number
\* >= 0: |deno| >= tiny, nume >= 0 under both formulas; after the update
\* u = h componentwise and g is the negated gradient last evaluated at x.
C10_DirectionUpdate ==
    min.pc = "head" /\ obs.nUpd > 0 =>
        /\ ~IsNaN(min.deno) /\ ~RLtTol(RAbs(min.deno), o.tiny)
        /\ RLe(R(0), min.nume)
        /\ min.gam = RDiv(min.nume, min.deno) /\ RLe(R(0), min.gam)
        /\ o.u = o.h
        /\ o.g = VecNeg(Jfcn(o.prob, min.x))

C10_Witness ==
    /\ min.pc = "head" /\ obs.nUpd > 0 /\ ~o.UseFRmethod
    /\ min.nume = R(0) /\ o.g # NewVector(o.size)

----------------------------------------------------------------------------
(* The quadratic problems with an exact line search (SpecQuad) *)

QuadProblems ==
    {[a |-> a, c |-> Centre, k |-> 0, gfac |-> 1] :
        a \in {<<1, 1>>, <<1, 2>>, <<2, 1>>}}

QuadStarts == {<<R(i), R(j)>> : i \in {0, 1, 4}, j \in {-2, 0, 1}}

QuadInit ==
    /\ \E p \in QuadProblems, fr \in BOOLEAN :
          /\ o = [NewConjGrad(Len(Centre), p) EXCEPT
                     !.MaxIt = 50, !.Ftol = Tol(1, 10), !.Gtol = Tol(1, 10),
                     !.UseBrent = TRUE, !.UseFRmethod = fr]
    /\ twin = NoTwin
    /\ min = NoFrame(Len(Centre))
    /\ obs = NoObs
    /\ ode = [pc |-> "idle"]

QuadCall ==
    /\ min.pc = "idle"
    /\ \E x0 \in QuadStarts : Becomes(MinCall(Cur, x0))
    /\ UNCHANGED <<twin, ode>>

QuadIterHead ==
    /\ min.pc = "head"
    /\ o.NumIter < IterCap
    /\ Becomes(IterHead(Cur))
    /\ UNCHANGED <<twin, ode>>

QuadNext ==
    \/ QuadCall
    \/ QuadIterHead
    \/ StepLineMin
    \/ StepGradient
    \/ StepUpdate

SpecQuad == QuadInit /\ [][QuadNext]_vars

\* C8: for f(x,y) = (x-3)^2 + (y+1)^2 with its gradient, Fletcher-Reeves,
\* start (0,0), Ftol = Gtol = 1e-10, MaxIt = 50 and an exact line search,
\* Min returns normally with x = (3,-1) and fmin = 0 after at most 2
\* iterations; and so it does, within `dimension` iterations, for every
\* positive-definite quadratic and start of the family, never reaching the
\* 'fail to converge' panic.
C8_QuadraticConverges ==
    /\ min.pc \notin {"failConv", "failJac"}
    /\ Len(obs.fmins) <= o.size
    /\ min.pc = "update" => obs.nUpd < o.size - 1
    /\ min.pc = "returned" =>
          /\ min.x = <<R(3), R(-1)>>
          /\ min.fmin = R(0)
          /\ o.NumIter < o.size

C8_Witness ==
    /\ o.prob.a = <<1, 1>> /\ o.UseFRmethod /\ obs.x0 = <<R(0), R(0)>>
    /\ o.MaxIt = 50 /\ o.Ftol = Tol(1, 10) /\ o.Gtol = Tol(1, 10)
    /\ min.pc = "returned" /\ min.x = <<R(3), R(-1)>> /\ min.fmin = R(0)

----------------------------------------------------------------------------
(* Two runs on objectives that differ by an additive constant (SpecPair) *)

Shifts == {1, 100}

PairInit ==
    /\ \E p \in QuadProblems, sh \in Shifts, mi \in {1, 200},
          ft \in {Tol(1, 8), Tol(1, 1)}, gt \in {Tol(0, 0), Tol(1, 8), Tol(1, 0)},
          br \in BOOLEAN, fr \in BOOLEAN :
          LET conf(oo) == [oo EXCEPT !.MaxIt = mi, !.Ftol = ft, !.Gtol = gt,
                                     !.UseBrent = br, !.UseFRmethod = fr]
          IN  /\ o = conf(NewConjGrad(Len(Centre), p))
              /\ twin = [Machine(Len(Centre), [p EXCEPT !.k = p.k + sh])
                            EXCEPT !.o = conf(@)]
    /\ min = NoFrame(Len(Centre))
    /\ obs = NoObs
    /\ ode = [pc |-> "idle"]

\* both runs take the step that is next for them, with the same line search
PairStep(pc, M) ==
    IF M.min.pc # pc THEN M
    ELSE CASE pc = "head" -> IterHead(M)
           [] pc = "grad" -> Gradient(M)
           [] pc = "update" -> Update(M)

PairAt(pc) ==
    /\ min.pc = pc \/ twin.min.pc = pc
    /\ min.pc = pc => Followed(Cur)
    /\ twin.min.pc = pc => Followed(twin)

PairCall ==
    /\ min.pc = "idle" /\ twin.min.pc = "idle"
    /\ \E x0 \in StartPoints :
          Becomes(MinCall(Cur, x0)) /\ twin' = MinCall(twin, x0)
    /\ UNCHANGED ode

PairIterHead ==
    /\ PairAt("head")
    /\ Becomes(PairStep("head", Cur)) /\ twin' = PairStep("head", twin)
    /\ UNCHANGED ode

PairLineMin ==
    /\ PairAt("line")
    /\ \E halve \in (IF o.UseBrent THEN {FALSE} ELSE BOOLEAN) :
          /\ Becomes(IF min.pc = "line" THEN LineMin(Cur, halve) ELSE Cur)
          /\ twin' = IF twin.min.pc = "line" THEN LineMin(twin, halve) ELSE twin
    /\ UNCHANGED ode

PairGradient ==
    /\ PairAt("grad")
    /\ Becomes(PairStep("grad", Cur)) /\ twin' = PairStep("grad", twin)
    /\ UNCHANGED ode

PairUpdate ==
    /\ PairAt("update")
    /\ Becomes(PairStep("update", Cur)) /\ twin' = PairStep("update", twin)
    /\ UNCHANGED ode

PairNext ==
    \/ PairCall
    \/ PairIterHead
    \/ PairLineMin
    \/ PairGradient
    \/ PairUpdate

SpecPair == PairInit /\ [][PairNext]_vars

ShiftOfTwin == R(twin.o.prob.k - o.prob.k)

\* C5 as stated: two runs on objectives that differ by an additive constant
\* (same gradient, start, configuration and line-search behaviour) take the
\* same exit point in the same iteration and leave the same x.
C5_SameIterate ==
    Ended(Cur) /\ Ended(twin) =>
        /\ min.pc = twin.min.pc
        /\ obs.exit = twin.obs.exit
        /\ o.NumIter = twin.o.NumIter
        /\ min.x = twin.min.x

\* C5 amended: while both runs are iterating they hold the same x, u, g, h,
\* deno, gamma and NumIter, and their fx and fmin differ by exactly the
\* constant; the loop bound and exit point 1 decide alike in both.  The runs
\* separate only at exit point 2 or 3, whose tests compare with
\* Ftol*(|fmin|+|fx|+tiny) and divide by max(fx,1): the run that ends first
\* ends through exit point 2 or 3.
C5_Lockstep ==
    /\ Running(Cur) /\ Running(twin) =>
          /\ min.pc = twin.min.pc
          /\ min.x = twin.min.x
          /\ o.u = twin.o.u /\ o.g = twin.o.g /\ o.h = twin.o.h
          /\ o.NumIter = twin.o.NumIter
          /\ min.deno = twin.min.deno /\ min.gam = twin.min.gam
          /\ twin.min.fx = RAdd(min.fx, ShiftOfTwin)
          /\ twin.min.fmin = RAdd(min.fmin, ShiftOfTwin)
    /\ Ended(Cur) /\ Running(twin) =>
          min.pc = "returned" /\ obs.exit \in {2, 3}
    /\ Ended(twin) /\ Running(Cur) =>
          twin.min.pc = "returned" /\ twin.obs.exit \in {2, 3}
    /\ Ended(Cur) /\ Ended(twin) /\ (obs.exit = 1 \/ min.pc = "failConv")
          /\ o.NumIter = twin.o.NumIter /\ twin.obs.exit \notin {2, 3} =>
          /\ min.pc = twin.min.pc /\ obs.exit = twin.obs.exit
          /\ min.x = twin.min.x

C5_Witness ==
    /\ Ended(twin) /\ Running(Cur) /\ twin.obs.exit = 2
    /\ twin.o.NumIter = o.NumIter /\ min.pc = "grad"
    /\ twin.min.x = min.x /\ twin.min.fmin = RAdd(min.fmin, ShiftOfTwin)

----------------------------------------------------------------------------
(* ode.Solve (SpecSolve) *)

\* the defaults of NewConfig named by Solve's doc comment
DefaultTol == Tol(1, 4)
NewConfig(method) ==
    [method |-> method, atol |-> DefaultTol, rtol |-> DefaultTol,
     fixed |-> FALSE, fixedH |-> R(0), stepOut |-> FALSE, denseOut |-> FALSE,
     denseDx |-> R(0)]

Positive(t) == ~t.inf /\ t.m > 0

\* Solve(method, fcn, jac, y, xf, dx, atol, rtol, numJac, fixedStep,
\*       saveStep, saveDense)
Solve(a) ==
    IF a.method = "unknown"
    THEN [pc |-> "configError", args |-> a]
    ELSE LET c0 == NewConfig(a.method)
             c1 == IF Positive(a.atol) /\ Positive(a.rtol)
                   THEN [c0 EXCEPT !.atol = a.atol, !.rtol = a.rtol] ELSE c0
             c2 == IF a.fixedStep
                   THEN [c1 EXCEPT !.fixed = TRUE, !.fixedH = a.dx] ELSE c1
             c3 == IF a.saveStep THEN [c2 EXCEPT !.stepOut = TRUE] ELSE c2
             c4 == IF a.saveDense
                   THEN [c3 EXCEPT !.denseOut = TRUE, !.denseDx = a.dx] ELSE c3
         IN  [pc |-> "solved", args |-> a, conf |-> c4,
              J |-> IF a.numJac THEN "nil" ELSE a.jac]

SolveArgs ==
    [method : {"radau5", "unknown"}, jac : {"nil", "jac"},
     atol : {Tol(0, 0), Tol(1, 6)}, rtol : {Tol(0, 0), Tol(1, 6), Tol(1, 2)},
     dx : {<<1, 10>>}, numJac : BOOLEAN, fixedStep : BOOLEAN,
     saveStep : BOOLEAN, saveDense : BOOLEAN]

SolveInit ==
    /\ \E p \in {q \in QuadProblems : q.a = <<1, 1>>} :
          o = NewConjGrad(Len(Centre), p)
    /\ twin = NoTwin
    /\ min = NoFrame(Len(Centre))
    /\ obs = NoObs
    /\ ode = [pc |-> "idle"]

CallSolve ==
    /\ \E a \in SolveArgs : ode' = Solve(a)
    /\ UNCHANGED <<o, min, obs, twin>>

SolveNext == CallSolve

SpecSolve == SolveInit /\ [][SolveNext]_vars

\* C9: in ode.Solve each tolerance argument is handled as the doc states:
\* atol = 0 selects the default absolute tolerance and rtol = 0 the default
\* relative tolerance, a positive atol (rtol) is the tolerance the solver is
\* configured with, for every combination of the two arguments.
C9_TolerancePerArgument ==
    ode.pc = "solved" =>
        /\ ode.conf.atol =
              IF Positive(ode.args.atol) THEN ode.args.atol ELSE DefaultTol
        /\ ode.conf.rtol =
              IF Positive(ode.args.rtol) THEN ode.args.rtol ELSE DefaultTol

============================================================================
